---- MODULE Spec2Model ----
(***************************************************************************)
(* State-machine model of src/src/speed_distance/speed_distance.py:        *)
(* ViewTransformer.transform_point and SpeedAndDistanceEstimator.          *)
(*                                                                         *)
(* Numbers.  Lengths are integers in tenths of a metre (0.1 m), so that a  *)
(* pixel distance divided by 10.0 (pixels -> metres) is again an integer   *)
(* number of units.  Speeds are exact rationals <<n, d>> in km/h, reduced   *)
(* to lowest terms with d > 0.  The inputs are chosen so that every        *)
(* Euclidean distance is an integer (the square root is exact); floating   *)
(* point rounding is not modelled.                                         *)
(*                                                                         *)
(* Optional values (Python None) are sequences of length 0 or 1.  A record *)
(* of the tracker (the dict `info`) is a TLA+ record that has exactly the  *)
(* fields present in the dict.  A per-frame dict `track` is a sequence of  *)
(* <<tid, info>> pairs in insertion order.  A track identity is a pair     *)
(* <<type, text>> where text is what str() makes of it.                    *)
(***************************************************************************)
EXTENDS Integers, Sequences, FiniteSets, TLC

VARIABLES
    position_history,   \* self.position_history : key -> deque(maxlen=20) of <<pos, idx, is_pixel>>
    speed_history,      \* self.speed_history    : key -> deque(maxlen=10) of speeds
    distance_traveled,  \* self.distance_traveled: key -> accumulated distance
    display_cache,      \* self.display_cache    : key -> [speed, distance]
    tracks,             \* the tracks argument of the running/last update call, as far as enumerated
    pc,                 \* "idle" | "update"
    cur,                \* class whose frames the update loop is enumerating ("" between classes)
    raised,             \* the last update call ended with an exception
    output,             \* what the last draw_speed_and_distance call resolved, <<>> if none since update
    op,                 \* the last operation performed, <<name, argument>>
    calls,              \* number of update calls made
    nframes,            \* number of non-empty frames enumerated by the update calls
    point,              \* argument of transform_point
    transformed         \* result of the last transform_point call: <<"none">>, <<"None">> or <<"value", point>>

vars == <<position_history, speed_history, distance_traveled, display_cache,
          tracks, pc, cur, raised, output, op, calls, nframes, point, transformed>>

estimator == <<position_history, speed_history, distance_traveled, display_cache>>

-----------------------------------------------------------------------------
(* Bounds of the model *)

MaxCalls == 2          \* update calls per behaviour
MaxFrames == 3         \* non-empty frames enumerated per behaviour
MaxJumpCalls == 1      \* update calls per behaviour of SpecJump
MaxJumpFrames == 4     \* non-empty frames enumerated per behaviour of SpecJump
MaxFrameIdx == 32      \* frames of a class enumerated per update call
SubPixel == 2          \* point coordinates are multiples of 1/SubPixel pixel
Reach == 2             \* points lie within Reach/SubPixel pixel of a calibration corner
MaxLongCalls == 2      \* update calls per behaviour of SpecLong
MaxLongFrames == 22    \* non-empty frames enumerated per behaviour of SpecLong
MaxMoves == 1          \* samples away from the origin in a position history of SpecLong
MaxKeyCalls == 1       \* update calls per behaviour of SpecKeys
MaxKeyFrames == 2      \* non-empty frames enumerated per behaviour of SpecKeys
MaxKeyGap == 1         \* frames without records at the start of a class of SpecKeys

-----------------------------------------------------------------------------
(* Program constants *)

frame_rate == 30
smoothing_window == 5
max_reasonable_speed == 40
position_maxlen == 20
speed_maxlen == 10
pixels_per_meter == 10
max_step_pixel == 2
max_step_real == 5

\* m metres in model units (tenths of a metre)
Metres(m) == m * 10

-----------------------------------------------------------------------------
(* Generic helpers: dicts, deques, rationals *)

Has(d, k) == k \in DOMAIN d

Get(d, k, default) == IF k \in DOMAIN d THEN d[k] ELSE default

Put(d, k, v) == [x \in DOMAIN d \cup {k} |-> IF x = k THEN v ELSE d[x]]

Del(d, k) == [x \in DOMAIN d \ {k} |-> d[x]]

Min(a, b) == IF a <= b THEN a ELSE b

Abs(a) == IF a < 0 THEN -a ELSE a

LastN(s, n) == SubSeq(s, Len(s) - Min(n, Len(s)) + 1, Len(s))

\* a deque that grows without limit
DequeAppend_Unbounded(q, x, maxlen) == Append(q, x)

\* collections.deque(maxlen=maxlen).append(x)
DequeAppend(q, x, maxlen) ==
    IF Len(q) >= maxlen THEN Append(Tail(q), x) ELSE Append(q, x)

RECURSIVE GCD(_, _)
GCD(a, b) == IF b = 0 THEN a ELSE GCD(b, a % b)

Rat(n, d) == LET g == GCD(Abs(n), d) IN <<n \div g, d \div g>>

RatLeq(r, s) == r[1] * s[2] <= s[1] * r[2]

RatLess(r, s) == r[1] * s[2] < s[1] * r[2]

RatAdd(r, s) == Rat(r[1] * s[2] + s[1] * r[2], r[2] * s[2])

RatHalf(r) == Rat(r[1], 2 * r[2])

RECURSIVE SqrtBetween(_, _, _)
SqrtBetween(n, lo, hi) ==
    IF lo >= hi THEN lo
    ELSE LET mid == (lo + hi + 1) \div 2
         IN IF mid * mid <= n THEN SqrtBetween(n, mid, hi)
            ELSE SqrtBetween(n, lo, mid - 1)

\* the integer square root; 46340 is the largest integer whose square TLC can compute
Sqrt(n) == SqrtBetween(n, 0, Min(n, 46340))

RECURSIVE Insert(_, _)
Insert(sorted, r) ==
    IF sorted = <<>> THEN <<r>>
    ELSE IF RatLeq(r, Head(sorted)) THEN <<r>> \o sorted
    ELSE <<Head(sorted)>> \o Insert(Tail(sorted), r)

RECURSIVE Sorted(_)
Sorted(s) == IF s = <<>> THEN <<>> ELSE Insert(Sorted(Tail(s)), Head(s))

\* the upper middle value taken for an even count
Median_UpperMiddle(s) ==
    LET t == Sorted(s)
        n == Len(t)
    IN IF n % 2 = 1 THEN t[(n + 1) \div 2]
       ELSE t[n \div 2 + 1]

\* np.median of a non-empty list
Median(s) ==
    LET t == Sorted(s)
        n == Len(t)
    IN IF n % 2 = 1 THEN t[(n + 1) \div 2]
       ELSE RatHalf(RatAdd(t[n \div 2], t[n \div 2 + 1]))

-----------------------------------------------------------------------------
(* Helpers of the estimator *)

\* a position supports pos[0] and pos[1]
WellFormed(pos) == Len(pos) >= 2

\* utils.measure_distance: Euclidean distance of two 2-D points
measure_distance(p1, p2) ==
    Sqrt((p1[1] - p2[1]) * (p1[1] - p2[1]) + (p1[2] - p2[2]) * (p1[2] - p2[2]))

\* distance of two samples in model units, for the coordinate mode
StepDistance(p1, p2, use_pixel_coords) ==
    IF use_pixel_coords
    THEN Metres(measure_distance(p1, p2)) \div pixels_per_meter
    ELSE measure_distance(p1, p2)

RECURSIVE TotalDistance(_, _, _)
TotalDistance(positions, i, use_pixel_coords) ==
    IF i > Len(positions) THEN 0
    ELSE StepDistance(positions[i - 1], positions[i], use_pixel_coords)
         + TotalDistance(positions, i + 1, use_pixel_coords)

\* the speed computed over at least one frame of elapsed time
_calculate_instantaneous_speed_MinOneFrame(positions, frame_indices, use_pixel_coords) ==
    IF Len(positions) < 2 THEN [raised |-> FALSE, val |-> <<>>]
    ELSE
    LET recent_positions == LastN(positions, smoothing_window)
        recent_indices == LastN(frame_indices, smoothing_window)
        n == Len(recent_positions)
    IN IF n < 2 THEN [raised |-> FALSE, val |-> <<>>]
       ELSE IF \E i \in 1..n : ~WellFormed(recent_positions[i])
       THEN [raised |-> TRUE, val |-> <<>>]
       ELSE
       LET total_distance == TotalDistance(recent_positions, 2, use_pixel_coords)
           delta == recent_indices[n] - recent_indices[1]
           frames == IF delta <= 0 THEN 1 ELSE delta
           speed_kmph == Rat(total_distance * frame_rate * 36, Metres(1) * 10 * frames)
       IN IF RatLess(<<max_reasonable_speed, 1>>, speed_kmph)
          THEN [raised |-> FALSE, val |-> <<>>]
          ELSE [raised |-> FALSE, val |-> <<speed_kmph>>]

\* [raised, val]: val is <<>> for None, <<speed>> otherwise
_calculate_instantaneous_speed(positions, frame_indices, use_pixel_coords) ==
    IF Len(positions) < 2 THEN [raised |-> FALSE, val |-> <<>>]
    ELSE
    LET recent_positions == LastN(positions, smoothing_window)
        recent_indices == LastN(frame_indices, smoothing_window)
        n == Len(recent_positions)
    IN IF n < 2 THEN [raised |-> FALSE, val |-> <<>>]
       ELSE IF \E i \in 1..n : ~WellFormed(recent_positions[i])
       THEN [raised |-> TRUE, val |-> <<>>]
       ELSE
       LET total_distance == TotalDistance(recent_positions, 2, use_pixel_coords)
           frames == recent_indices[n] - recent_indices[1]
       IN IF frames <= 0 THEN [raised |-> FALSE, val |-> <<>>]
          ELSE
          LET speed_kmph == Rat(total_distance * frame_rate * 36, Metres(1) * 10 * frames)
          IN IF RatLess(<<max_reasonable_speed, 1>>, speed_kmph)
             THEN [raised |-> FALSE, val |-> <<>>]
             ELSE [raised |-> FALSE, val |-> <<speed_kmph>>]

\* _calculate_distance_increment without the limit in real-world mode
_calculate_distance_increment_NoRealLimit(prev_pos, curr_pos, use_pixel_coords) ==
    IF ~WellFormed(prev_pos) \/ ~WellFormed(curr_pos) THEN <<>>
    ELSE
    LET distance == StepDistance(prev_pos, curr_pos, use_pixel_coords)
    IN IF use_pixel_coords
       THEN IF distance > Metres(max_step_pixel) THEN <<>> ELSE <<distance>>
       ELSE <<distance>>

\* <<>> for None, <<distance>> otherwise
_calculate_distance_increment(prev_pos, curr_pos, use_pixel_coords) ==
    IF ~WellFormed(prev_pos) \/ ~WellFormed(curr_pos) THEN <<>>
    ELSE
    LET distance == StepDistance(prev_pos, curr_pos, use_pixel_coords)
    IN IF use_pixel_coords
       THEN IF distance > Metres(max_step_pixel) THEN <<>> ELSE <<distance>>
       ELSE IF distance > Metres(max_step_real) THEN <<>> ELSE <<distance>>

\* [hist, val]: self.speed_history after the call and the returned value
_smooth_speed(sh, player_id, new_speed) ==
    IF new_speed = <<>> THEN [hist |-> sh, val |-> <<>>]
    ELSE
    LET speed_hist == DequeAppend(Get(sh, player_id, <<>>), new_speed[1], speed_maxlen)
        h == Put(sh, player_id, speed_hist)
    IN IF Len(speed_hist) >= 3
       THEN [hist |-> h, val |-> <<Median(speed_hist)>>]
       ELSE [hist |-> h, val |-> new_speed]

\* the exclusion with a misspelt class name
Excluded_Misspelt(obj) == obj \in {"ball", "referee"}

Excluded(obj) == obj \in {"ball", "referees"}

player_key(obj, tid) == obj \o "_" \o tid[2]

\* info["speed"] = s; info["distance"] = d
Annotate(info, s, d) ==
    [f \in DOMAIN info \cup {"speed", "distance"} |->
        IF f = "speed" THEN s ELSE IF f = "distance" THEN d ELSE info[f]]

\* <<>> if the record has no position, else <<[position, use_pixel_coords]>>
SelectPosition(info) ==
    IF Has(info, "position_transformed")
    THEN <<[position |-> info.position_transformed, use_pixel_coords |-> FALSE]>>
    ELSE IF Has(info, "position_adjusted") /\ Len(info.position_adjusted) > 0
    THEN <<[position |-> info.position_adjusted, use_pixel_coords |-> TRUE]>>
    ELSE IF Has(info, "position")
    THEN <<[position |-> info.position, use_pixel_coords |-> TRUE]>>
    ELSE <<>>

\* info gets the cached speed and distance, or zeros if there are none
UseCache_OrZero(st, key, info) ==
    IF key \in DOMAIN st.display_cache
    THEN Annotate(info, st.display_cache[key].speed, st.display_cache[key].distance)
    ELSE Annotate(info, <<0, 1>>, 0)

\* info gets the cached speed and distance, if there are any
UseCache(st, key, info) ==
    IF key \in DOMAIN st.display_cache
    THEN Annotate(info, st.display_cache[key].speed, st.display_cache[key].distance)
    ELSE info

\* the window is taken as consistent whatever its coordinate types
coord_type_consistent_Unchecked(window, use_pixel_coords) == TRUE

\* the coordinate types of the samples of the window are those of the current sample
coord_type_consistent(window, use_pixel_coords) ==
    \A i \in 1..Len(window) : window[i][3] = use_pixel_coords

\* the accumulator assigned instead of incremented
Accumulate_Assign(dt, key, distance_increment) == Put(dt, key, distance_increment)

\* self.distance_traveled[player_key] += distance_increment
Accumulate(dt, key, distance_increment) ==
    Put(dt, key, Get(dt, key, 0) + distance_increment)

\* the increment of the two most recent samples, <<>> if their coordinate types differ
DistanceIncrement(pos_hist, use_pixel_coords) ==
    LET prev_pos_data == pos_hist[Len(pos_hist) - 1]
        curr_pos_data == pos_hist[Len(pos_hist)]
    IN IF prev_pos_data[3] = curr_pos_data[3]
       THEN _calculate_distance_increment(prev_pos_data[1], curr_pos_data[1], use_pixel_coords)
       ELSE <<>>

\* "Store results": the record and the cache get the smoothed speed and the accumulator
StoreResults(st, key, info, smoothed_speed) ==
    IF smoothed_speed # <<>> THEN
        \* reading self.distance_traveled[player_key] creates the entry
        LET st4 == [st EXCEPT !.distance_traveled = Put(@, key, Get(@, key, 0))]
            d == st4.distance_traveled[key]
        IN [st |-> [st4 EXCEPT !.display_cache =
                        Put(@, key, [speed |-> smoothed_speed[1], distance |-> d])],
            info |-> Annotate(info, smoothed_speed[1], d),
            raised |-> FALSE]
    ELSE [st |-> st, info |-> info, raised |-> FALSE]

\* the zero initialisation reading the accumulator, which creates its entry
InitialiseZero_ReadsAccumulator(st, key, info) ==
    IF key \notin DOMAIN st.display_cache
    THEN LET st4 == [st EXCEPT !.distance_traveled = Put(@, key, Get(@, key, 0))]
         IN [st |-> [st4 EXCEPT !.display_cache =
                        Put(@, key, [speed |-> <<0, 1>>,
                                     distance |-> st4.distance_traveled[key]])],
             info |-> Annotate(info, <<0, 1>>, st4.distance_traveled[key]),
             raised |-> FALSE]
    ELSE [st |-> st, info |-> info, raised |-> FALSE]

\* the zero values written to the record without seeding the cache
InitialiseZero_NoSeed(st, key, info) ==
    IF key \notin DOMAIN st.display_cache
    THEN [st |-> st, info |-> Annotate(info, <<0, 1>>, 0), raised |-> FALSE]
    ELSE [st |-> st, info |-> info, raised |-> FALSE]

\* "Not enough history, but initialize with zero values"
InitialiseZero(st, key, info) ==
    IF key \notin DOMAIN st.display_cache
    THEN [st |-> [st EXCEPT !.display_cache =
                    Put(@, key, [speed |-> <<0, 1>>, distance |-> 0])],
          info |-> Annotate(info, <<0, 1>>, 0),
          raised |-> FALSE]
    ELSE [st |-> st, info |-> info, raised |-> FALSE]

\* the loop body adding the distance increment only when a smoothed speed resulted
ProcessRecord_SpeedGatesDistance(st, obj, frame_idx, tid, info) ==
    LET key == player_key(obj, tid)
        sel == SelectPosition(info)
    IN
    IF sel = <<>> THEN [st |-> st, info |-> UseCache(st, key, info), raised |-> FALSE]
    ELSE
    LET position == sel[1].position
        use_pixel_coords == sel[1].use_pixel_coords
        pos_hist == DequeAppend(Get(st.position_history, key, <<>>),
                                <<position, frame_idx, use_pixel_coords>>, position_maxlen)
        st1 == [st EXCEPT !.position_history = Put(@, key, pos_hist)]
    IN
    IF Len(pos_hist) >= 2 THEN
        LET window == LastN(pos_hist, smoothing_window)
            recent_positions == [i \in 1..Len(window) |-> window[i][1]]
            recent_indices == [i \in 1..Len(window) |-> window[i][2]]
        IN
        IF Len(recent_positions) >= 2 /\ coord_type_consistent(window, use_pixel_coords) THEN
            LET raw_speed == _calculate_instantaneous_speed(recent_positions, recent_indices,
                                                            use_pixel_coords)
            IN
            IF raw_speed.raised THEN [st |-> st1, info |-> info, raised |-> TRUE]
            ELSE
            LET sm == _smooth_speed(st1.speed_history, key, raw_speed.val)
                st2 == [st1 EXCEPT !.speed_history = sm.hist]
                distance_increment == DistanceIncrement(pos_hist, use_pixel_coords)
                st3 == IF distance_increment # <<>> /\ sm.val # <<>>
                       THEN [st2 EXCEPT !.distance_traveled =
                                Accumulate(@, key, distance_increment[1])]
                       ELSE st2
            IN StoreResults(st3, key, info, sm.val)
        ELSE [st |-> st1, info |-> UseCache(st1, key, info), raised |-> FALSE]
    ELSE InitialiseZero(st1, key, info)

\* The body of the innermost loop of add_speed_and_distance_to_tracks for one
\* record; st is the estimator state.  Result: [st, info, raised].
ProcessRecord(st, obj, frame_idx, tid, info) ==
    LET key == player_key(obj, tid)
        sel == SelectPosition(info)
    IN
    IF sel = <<>> THEN [st |-> st, info |-> UseCache(st, key, info), raised |-> FALSE]
    ELSE
    LET position == sel[1].position
        use_pixel_coords == sel[1].use_pixel_coords
        pos_hist == DequeAppend(Get(st.position_history, key, <<>>),
                                <<position, frame_idx, use_pixel_coords>>, position_maxlen)
        st1 == [st EXCEPT !.position_history = Put(@, key, pos_hist)]
    IN
    IF Len(pos_hist) >= 2 THEN
        LET window == LastN(pos_hist, smoothing_window)
            recent_positions == [i \in 1..Len(window) |-> window[i][1]]
            recent_indices == [i \in 1..Len(window) |-> window[i][2]]
        IN
        IF Len(recent_positions) >= 2 /\ coord_type_consistent(window, use_pixel_coords) THEN
            LET raw_speed == _calculate_instantaneous_speed(recent_positions, recent_indices,
                                                            use_pixel_coords)
            IN
            IF raw_speed.raised THEN [st |-> st1, info |-> info, raised |-> TRUE]
            ELSE
            LET sm == _smooth_speed(st1.speed_history, key, raw_speed.val)
                st2 == [st1 EXCEPT !.speed_history = sm.hist]
                distance_increment == DistanceIncrement(pos_hist, use_pixel_coords)
                st3 == IF distance_increment # <<>>
                       THEN [st2 EXCEPT !.distance_traveled =
                                Accumulate(@, key, distance_increment[1])]
                       ELSE st2
            IN StoreResults(st3, key, info, sm.val)
        ELSE [st |-> st1, info |-> UseCache(st1, key, info), raised |-> FALSE]
    ELSE InitialiseZero(st1, key, info)

\* for tid, info in track.items(), from item i on; acc = [st, track, raised]
RECURSIVE ProcessTrack(_, _, _, _)
ProcessTrack(acc, obj, frame_idx, i) ==
    IF i > Len(acc.track) \/ acc.raised THEN acc
    ELSE LET r == ProcessRecord(acc.st, obj, frame_idx, acc.track[i][1], acc.track[i][2])
         IN ProcessTrack([st |-> r.st,
                          track |-> [acc.track EXCEPT ![i] = <<acc.track[i][1], r.info>>],
                          raised |-> r.raised],
                         obj, frame_idx, i + 1)

State == [position_history |-> position_history, speed_history |-> speed_history,
          distance_traveled |-> distance_traveled, display_cache |-> display_cache]

SetState(st) ==
    /\ position_history' = st.position_history
    /\ speed_history' = st.speed_history
    /\ distance_traveled' = st.distance_traveled
    /\ display_cache' = st.display_cache

-----------------------------------------------------------------------------
(* Rendering, reset, statistics *)

\* what draw_speed_and_distance resolves for one record: <<>> if it draws
\* nothing, <<[speed, distance]>> otherwise
Resolve(cache, obj, tid, info) ==
    LET player_key_ == player_key(obj, tid)
        speed0 == IF Has(info, "speed") THEN <<info.speed>> ELSE <<>>
        distance0 == IF Has(info, "distance") THEN <<info.distance>> ELSE <<>>
        fallback == (speed0 = <<>> \/ distance0 = <<>>) /\ player_key_ \in DOMAIN cache
        speed == IF fallback THEN <<cache[player_key_].speed>> ELSE speed0
        distance == IF fallback THEN <<cache[player_key_].distance>> ELSE distance0
    IN IF speed = <<>> \/ distance = <<>> THEN <<>>
       ELSE IF ~Has(info, "bbox") THEN <<>>
       ELSE <<[speed |-> speed[1], distance |-> distance[1]]>>

\* per class, per frame, per record: <<tid, Resolve(...)>>
Drawn(cache, trk) ==
    [obj \in {o \in DOMAIN trk : ~Excluded(o)} |->
        [f \in 1..Len(trk[obj]) |->
            [i \in 1..Len(trk[obj][f]) |->
                <<trk[obj][f][i][1],
                  Resolve(cache, obj, trk[obj][f][i][1], trk[obj][f][i][2])>>]]]

RECURSIVE Sum(_)
Sum(s) == IF s = <<>> THEN <<0, 1>> ELSE RatAdd(Head(s), Sum(Tail(s)))

RECURSIVE Max(_)
Max(s) == IF Len(s) = 1 THEN s[1]
          ELSE LET m == Max(Tail(s)) IN IF RatLeq(m, Head(s)) THEN Head(s) ELSE m

\* get_player_stats()
get_player_stats ==
    [player_key_ \in DOMAIN distance_traveled |->
        LET speed_hist == Get(speed_history, player_key_, <<>>)
        IN [total_distance |-> distance_traveled[player_key_],
            avg_speed |-> IF speed_hist # <<>>
                          THEN Rat(Sum(speed_hist)[1], Sum(speed_hist)[2] * Len(speed_hist))
                          ELSE <<0, 1>>,
            max_speed |-> IF speed_hist # <<>> THEN Max(speed_hist) ELSE <<0, 1>>,
            current_speed |-> IF speed_hist # <<>> THEN speed_hist[Len(speed_hist)]
                              ELSE <<0, 1>>]]

-----------------------------------------------------------------------------
(* ViewTransformer.  A point is <<x, y>> in units of 1/SubPixel pixel. *)

pixel_vertices == <<<<110, 1035>>, <<265, 275>>, <<910, 260>>, <<1640, 915>>>>

Sign(a) == IF a > 0 THEN 1 ELSE IF a < 0 THEN -1 ELSE 0

\* int(): truncation towards zero of n/unit
Trunc(n, unit) == IF n >= 0 THEN n \div unit ELSE -((-n) \div unit)

\* on which side of the line from a to b the point p lies
Side(a, b, p) == Sign((b[1] - a[1]) * (p[2] - a[2]) - (b[2] - a[2]) * (p[1] - a[1]))

\* cv2.pointPolygonTest(contour, p, False) for a convex contour: 1 inside,
\* 0 on an edge, -1 outside
pointPolygonTest(contour, p) ==
    LET n == Len(contour)
        sides == {Side(contour[i], contour[(i % n) + 1], p) : i \in 1..n}
    IN IF 1 \in sides /\ -1 \in sides THEN -1
       ELSE IF 0 \in sides THEN 0
       ELSE 1

\* transform_point(point) for a point with coordinates in 1/unit pixel:
\* <<"None">> or <<"value", point>>, the projection of point
transform_point(pt, unit) ==
    LET p == <<Trunc(pt[1], unit), Trunc(pt[2], unit)>>
    IN IF pointPolygonTest(pixel_vertices, p) < 0 THEN <<"None">>
       ELSE <<"value", pt>>

-----------------------------------------------------------------------------
(* Inputs *)

EmptyDict == [x \in {} |-> 0]

BBox == <<0, 0, 10, 20>>

NoPosition == [bbox |-> BBox]

Real(p) == [bbox |-> BBox, position_transformed |-> p]

Adjusted(p) == [bbox |-> BBox, position_adjusted |-> p]

\* every dict over the identities tids with values in infos, in every insertion order
Tracks(tids, infos) ==
    UNION {{s \in [1..n -> tids \X infos] : \A i, j \in 1..n : i # j => s[i][1] # s[j][1]} :
           n \in 1..Cardinality(tids)}

FrameIdx == Len(tracks[cur])

-----------------------------------------------------------------------------
(* Operations *)

Init ==
    /\ position_history = EmptyDict
    /\ speed_history = EmptyDict
    /\ distance_traveled = EmptyDict
    /\ display_cache = EmptyDict
    /\ tracks = EmptyDict
    /\ pc = "idle"
    /\ cur = ""
    /\ raised = FALSE
    /\ output = <<>>
    /\ op = <<"init", "">>
    /\ calls = 0
    /\ nframes = 0
    /\ point = <<0, 0>>
    /\ transformed = <<"none">>

\* a call of add_speed_and_distance_to_tracks begins
CallUpdate(maxCalls) ==
    /\ pc = "idle"
    /\ calls < maxCalls
    /\ pc' = "update"
    /\ calls' = calls + 1
    /\ tracks' = EmptyDict
    /\ cur' = ""
    /\ raised' = FALSE
    /\ output' = <<>>
    /\ op' = <<"update", "">>
    /\ UNCHANGED <<estimator, nframes, point, transformed>>

\* for obj, obj_tracks in tracks.items(): a class that is not skipped
EnterClass(obj) ==
    /\ pc = "update"
    /\ obj \notin DOMAIN tracks
    /\ ~Excluded(obj)
    /\ cur' = obj
    /\ tracks' = Put(tracks, obj, <<>>)
    /\ op' = <<"class", obj>>
    /\ UNCHANGED <<estimator, pc, raised, output, calls, nframes, point, transformed>>

\* for obj, obj_tracks in tracks.items(): if obj in ("ball", "referees"): continue
SkipClass(obj, obj_tracks) ==
    /\ pc = "update"
    /\ obj \notin DOMAIN tracks
    /\ Excluded(obj)
    /\ cur' = ""
    /\ tracks' = Put(tracks, obj, obj_tracks)
    /\ op' = <<"skip", obj>>
    /\ UNCHANGED <<estimator, pc, raised, output, calls, nframes, point, transformed>>

\* one iteration of `for frame_idx, track in enumerate(obj_tracks)`
ProcessFrame(track, maxFrames) ==
    /\ pc = "update"
    /\ cur # ""
    /\ nframes < maxFrames
    /\ nframes' = nframes + 1
    /\ LET r == ProcessTrack([st |-> State, track |-> track, raised |-> FALSE], cur, FrameIdx, 1)
       IN /\ SetState(r.st)
          /\ tracks' = [tracks EXCEPT ![cur] = Append(@, r.track)]
          /\ raised' = r.raised
          /\ pc' = IF r.raised THEN "idle" ELSE "update"
          /\ cur' = IF r.raised THEN "" ELSE cur
    /\ op' = <<"frame", cur>>
    /\ UNCHANGED <<output, calls, point, transformed>>

\* n iterations of the frame loop over frames without records
EmptyFrames(n, maxIdx) ==
    /\ pc = "update"
    /\ cur # ""
    /\ FrameIdx + n <= maxIdx
    /\ tracks' = [tracks EXCEPT ![cur] = @ \o [i \in 1..n |-> <<>>]]
    /\ op' = <<"frames", cur>>
    /\ UNCHANGED <<estimator, pc, cur, raised, output, calls, nframes, point, transformed>>

\* add_speed_and_distance_to_tracks returns
Return ==
    /\ pc = "update"
    /\ pc' = "idle"
    /\ cur' = ""
    /\ op' = <<"return", "">>
    /\ UNCHANGED <<estimator, tracks, raised, output, calls, nframes, point, transformed>>

\* a reset of one key that clears the data of every key
reset_player_data_ClearsAll(player_key_) ==
    /\ pc = "idle"
    /\ player_key_ # ""
    /\ position_history' = EmptyDict
    /\ speed_history' = EmptyDict
    /\ distance_traveled' = EmptyDict
    /\ display_cache' = EmptyDict
    /\ op' = <<"reset", player_key_>>
    /\ UNCHANGED <<tracks, pc, cur, raised, output, calls, nframes, point, transformed>>

\* reset_player_data(player_key) with a non-empty key
reset_player_data(player_key_) ==
    /\ pc = "idle"
    /\ player_key_ # ""
    /\ position_history' = Del(position_history, player_key_)
    /\ speed_history' = Del(speed_history, player_key_)
    /\ distance_traveled' = Del(distance_traveled, player_key_)
    /\ display_cache' = Del(display_cache, player_key_)
    /\ op' = <<"reset", player_key_>>
    /\ UNCHANGED <<tracks, pc, cur, raised, output, calls, nframes, point, transformed>>

\* a reset of all keys that leaves the display cache alone
reset_all_KeepsCache ==
    /\ pc = "idle"
    /\ position_history' = EmptyDict
    /\ speed_history' = EmptyDict
    /\ distance_traveled' = EmptyDict
    /\ display_cache' = display_cache
    /\ op' = <<"reset_all", "">>
    /\ UNCHANGED <<tracks, pc, cur, raised, output, calls, nframes, point, transformed>>

\* reset_player_data() / reset_player_data(None) / reset_player_data("")
reset_all ==
    /\ pc = "idle"
    /\ position_history' = EmptyDict
    /\ speed_history' = EmptyDict
    /\ distance_traveled' = EmptyDict
    /\ display_cache' = EmptyDict
    /\ op' = <<"reset_all", "">>
    /\ UNCHANGED <<tracks, pc, cur, raised, output, calls, nframes, point, transformed>>

\* draw_speed_and_distance(frames, tracks), one frame per entry of the longest class
draw_speed_and_distance ==
    /\ pc = "idle"
    /\ calls > 0
    /\ output = <<>>
    /\ output' = <<Drawn(display_cache, tracks)>>
    /\ op' = <<"draw", "">>
    /\ UNCHANGED <<estimator, tracks, pc, cur, raised, calls, nframes, point, transformed>>

-----------------------------------------------------------------------------
(* Specification Spec: class "player" with identities 7 and 9, real-world *)
(* and pixel samples, records without position, a malformed position,     *)
(* two update calls, resets and rendering                                 *)

T7 == <<"int", "7">>

T9 == <<"int", "9">>

Malformed == Adjusted(<<5>>)

\* a record without bounding box, with the raw pixel position only
RawOnly(p) == [position |-> p]

Infos7 == {NoPosition, Real(<<0, 0>>), Real(<<3, 0>>), Adjusted(<<0, 0>>), Malformed,
           RawOnly(<<0, 0>>)}

\* the frames of Spec: player 7 alone with each of Infos7, player 9 alone, both
\* moving, and player 7 without position beside a malformed player 9 in both orders
MainTracks ==
    Tracks({T7}, Infos7)
    \cup {<<<<T9, Real(<<3, 0>>)>>>>,
          <<<<T7, Real(<<3, 0>>)>>, <<T9, Real(<<3, 0>>)>>>>,
          <<<<T7, NoPosition>>, <<T9, Malformed>>>>,
          <<<<T9, Malformed>>, <<T7, NoPosition>>>>}

Next ==
    \/ CallUpdate(MaxCalls)
    \/ EnterClass("player")
    \/ \E track \in MainTracks : ProcessFrame(track, MaxFrames)
    \/ Return
    \/ \E k \in {"player_7", "player_9"} : reset_player_data(k)
    \/ reset_all
    \/ draw_speed_and_distance

Spec == Init /\ [][Next]_vars

-----------------------------------------------------------------------------
(* Specification SpecJump: one player, real-world and pixel samples that  *)
(* are 0.3 m, 3 m, 10 m and 100 m apart, and runs of 29 frames without    *)
(* records                                                                *)

JumpInfos == {Real(<<0, 0>>), Real(<<3, 0>>), Real(<<100, 0>>), Real(<<1000, 0>>),
              Adjusted(<<0, 0>>), Adjusted(<<30, 0>>)}

NextJump ==
    \/ CallUpdate(MaxJumpCalls)
    \/ EnterClass("player")
    \/ \E track \in Tracks({T7}, JumpInfos) : ProcessFrame(track, MaxJumpFrames)
    \/ \E n \in {29} : EmptyFrames(n, MaxFrameIdx)
    \/ Return

SpecJump == Init /\ [][NextJump]_vars

-----------------------------------------------------------------------------
(* Specification SpecClasses: the classes "ball" and "referees" beside    *)
(* "player"                                                               *)

Classes == {"player", "ball", "referees"}

ClassInfos == {Real(<<0, 0>>), Real(<<3, 0>>)}

\* the frames of a class that is skipped
ClassTracks ==
    {<<t>> : t \in Tracks({T7}, ClassInfos)}
    \cup {<<t, u>> : t \in Tracks({T7}, ClassInfos), u \in Tracks({T7}, ClassInfos)}

NextClasses ==
    \/ CallUpdate(MaxCalls)
    \/ \E obj \in Classes : EnterClass(obj)
    \/ \E obj \in Classes, obj_tracks \in ClassTracks : SkipClass(obj, obj_tracks)
    \/ \E track \in Tracks({T7}, ClassInfos) : ProcessFrame(track, MaxFrames)
    \/ Return
    \/ draw_speed_and_distance

SpecClasses == Init /\ [][NextClasses]_vars

-----------------------------------------------------------------------------
(* Specification SpecTransform: transform_point on the points around the  *)
(* calibration corners                                                    *)

Points ==
    UNION {{<<SubPixel * pixel_vertices[v][1] + dx, SubPixel * pixel_vertices[v][2] + dy>> :
                dx \in -Reach..Reach, dy \in -Reach..Reach} :
           v \in 1..Len(pixel_vertices)}

InitTransform ==
    /\ position_history = EmptyDict
    /\ speed_history = EmptyDict
    /\ distance_traveled = EmptyDict
    /\ display_cache = EmptyDict
    /\ tracks = EmptyDict
    /\ pc = "idle"
    /\ cur = ""
    /\ raised = FALSE
    /\ output = <<>>
    /\ op = <<"init", "">>
    /\ calls = 0
    /\ nframes = 0
    /\ point \in Points
    /\ transformed = <<"none">>

TransformPoint ==
    /\ transformed = <<"none">>
    /\ transformed' = transform_point(point, SubPixel)
    /\ op' = <<"transform", "">>
    /\ UNCHANGED <<estimator, tracks, pc, cur, raised, output, calls, nframes, point>>

NextTransform == TransformPoint

SpecTransform == InitTransform /\ [][NextTransform]_vars

-----------------------------------------------------------------------------
(* Specification SpecLong: one player seen on more than 20 consecutive    *)
(* frames, at the origin or, a few times, 0.3 m or 4 m away from it, and *)
(* once more in a second update call                                      *)

\* the number of samples of history h at position p
CountAt(h, p) == Cardinality({i \in 1..Len(h) : h[i][1] = p})

\* player 7 is at the origin, or away from it if its history holds less than
\* MaxMoves such samples
LongInfos ==
    LET h == Get(position_history, "player_7", <<>>)
    IN {Real(<<0, 0>>)}
       \cup (IF Len(h) - CountAt(h, <<0, 0>>) < MaxMoves
             THEN {Real(<<3, 0>>), Real(<<40, 0>>)} ELSE {})

NextLong ==
    \/ CallUpdate(MaxLongCalls)
    \/ EnterClass("player")
    \/ \E track \in Tracks({T7}, LongInfos) : ProcessFrame(track, MaxLongFrames)
    \/ (nframes >= MaxLongFrames - 1 /\ Return)  \* the class has that many frames

SpecLong == Init /\ [][NextLong]_vars

-----------------------------------------------------------------------------
(* Specification SpecKeys: classes and identities whose f"{obj}_{tid}"     *)
(* strings coincide: class "a" with identity "b_c" and class "a_b" with   *)
(* identity "c"; identities 1 and "1" in class "player"                   *)

Sb_c == <<"str", "b_c">>

Sc == <<"str", "c">>

I1 == <<"int", "1">>

S1 == <<"str", "1">>

KeyClasses == {"a", "a_b", "player"}

KeyInfos == {Real(<<0, 0>>), Real(<<3, 0>>)}

\* the frames of class obj
KeyTracks(obj) ==
    IF obj = "a" THEN Tracks({Sb_c}, KeyInfos)
    ELSE IF obj = "a_b" THEN Tracks({Sc}, KeyInfos)
    ELSE Tracks({I1, S1}, KeyInfos)

NextKeys ==
    \/ CallUpdate(MaxKeyCalls)
    \/ \E obj \in KeyClasses : EnterClass(obj)
    \/ \E track \in KeyTracks(cur) : ProcessFrame(track, MaxKeyFrames)
    \/ \E n \in {1} : EmptyFrames(n, MaxKeyGap)
    \/ Return

SpecKeys == Init /\ [][NextKeys]_vars

-----------------------------------------------------------------------------
(* Vocabulary of the properties *)

Annotated(info) == Has(info, "speed") /\ Has(info, "distance")

\* the records of class obj at frame f (1-based position in tracks[obj])
Items(obj, f) == 1..Len(tracks[obj][f])

TidAt(obj, f, i) == tracks[obj][f][i][1]

InfoAt(obj, f, i) == tracks[obj][f][i][2]

\* dict d and dict e agree on key k
Same(d, e, k) == (k \in DOMAIN d <=> k \in DOMAIN e) /\ (k \in DOMAIN d => d[k] = e[k])

IsReset(o) == o[1] \in {"reset", "reset_all"}

-----------------------------------------------------------------------------
(* C2 *)

C2_RecordsMonotone ==
    \A obj \in DOMAIN tracks : \A f1, f2 \in 1..Len(tracks[obj]) :
        f1 < f2 =>
            \A i \in Items(obj, f1), j \in Items(obj, f2) :
                (/\ TidAt(obj, f1, i) = TidAt(obj, f2, j)
                 /\ Has(InfoAt(obj, f1, i), "distance")
                 /\ Has(InfoAt(obj, f2, j), "distance"))
                => InfoAt(obj, f1, i).distance <= InfoAt(obj, f2, j).distance

C2_AccumulatorStep ==
    \A k \in DOMAIN distance_traveled :
        ~IsReset(op') =>
            /\ k \in DOMAIN distance_traveled'
            /\ distance_traveled[k] <= distance_traveled'[k]

\* C2: without a reset the distance accumulator of an entity never decreases,
\* and within the tracks of an update call the distance written to an entity's
\* record at a frame is at least the distance written to its record at any
\* earlier frame.
C2_MonotonicDistance == [](C2_RecordsMonotone) /\ [][C2_AccumulatorStep]_vars

\* an entity has a computed distance above a cache-reused one above the first-sighting 0
C2_Witness ==
    \E obj \in DOMAIN tracks : \E f1, f2, f3 \in 1..Len(tracks[obj]) :
        /\ f1 < f2 /\ f2 < f3
        /\ \E i \in Items(obj, f1), j \in Items(obj, f2), k \in Items(obj, f3) :
            /\ TidAt(obj, f1, i) = TidAt(obj, f2, j)
            /\ TidAt(obj, f2, j) = TidAt(obj, f3, k)
            /\ Annotated(InfoAt(obj, f1, i))
            /\ Annotated(InfoAt(obj, f2, j))
            /\ Annotated(InfoAt(obj, f3, k))
            /\ InfoAt(obj, f1, i).distance = 0
            /\ InfoAt(obj, f2, j).distance > 0
            /\ SelectPosition(InfoAt(obj, f3, k)) = <<>>
            /\ InfoAt(obj, f3, k).distance = InfoAt(obj, f2, j).distance

-----------------------------------------------------------------------------
(* C4 *)

\* C4: a record without position at the frame after an annotated record of
\* the same entity carries exactly the speed and distance of that record.
C4_GapFill ==
    \A obj \in DOMAIN tracks : \A f \in 1..(Len(tracks[obj]) - 1) :
        \A i \in Items(obj, f), j \in Items(obj, f + 1) :
            (/\ TidAt(obj, f, i) = TidAt(obj, f + 1, j)
             /\ Annotated(InfoAt(obj, f, i))
             /\ SelectPosition(InfoAt(obj, f + 1, j)) = <<>>)
            => /\ Annotated(InfoAt(obj, f + 1, j))
               /\ InfoAt(obj, f + 1, j).speed = InfoAt(obj, f, i).speed
               /\ InfoAt(obj, f + 1, j).distance = InfoAt(obj, f, i).distance

-----------------------------------------------------------------------------
(* C5 *)

\* the window of the most recent min(W, length) samples of history h holds a
\* sample whose coordinate mode differs from that of the newest sample
MixedWindow(h) ==
    LET w == LastN(h, smoothing_window)
    IN \E i \in 1..Len(w) : w[i][3] # w[Len(w)][3]

\* this step appended a sample to the history of key k, at the frame just enumerated
Sampled(k) ==
    /\ op'[1] = "frame"
    /\ k \in DOMAIN position_history'
    /\ ~Same(position_history, position_history', k)

\* the records of key k in the frame just enumerated
NewRecords(k) ==
    LET obj == op'[2]
        f == Len(tracks'[obj])
    IN {tracks'[obj][f][i][2] : i \in {j \in 1..Len(tracks'[obj][f]) :
                                        player_key(obj, tracks'[obj][f][j][1]) = k}}

C5_Step ==
    \A k \in DOMAIN position_history' :
        (Sampled(k) /\ MixedWindow(position_history'[k])) =>
            /\ Same(speed_history, speed_history', k)
            /\ Same(distance_traveled, distance_traveled', k)
            /\ Same(display_cache, display_cache', k)
            /\ \A info \in NewRecords(k) :
                IF k \in DOMAIN display_cache
                THEN /\ Annotated(info)
                     /\ info.speed = display_cache[k].speed
                     /\ info.distance = display_cache[k].distance
                ELSE ~Has(info, "speed") /\ ~Has(info, "distance")

\* C5: a frame whose sample makes the window of the most recent min(W, length)
\* samples hold two coordinate modes changes neither the speed history nor the
\* accumulator of the entity, and the record gets the cached speed and distance
\* if there is a cache entry and stays unannotated otherwise.
C5_CoordinateModeIsolation == [][C5_Step]_vars

\* a frame was just enumerated whose sample for player_7 made the window mixed,
\* while player_7 had a non-zero accumulator
C5_Witness ==
    /\ op = <<"frame", "player">>
    /\ ~raised
    /\ "player_7" \in DOMAIN position_history
    /\ LET h == position_history["player_7"]
       IN /\ h[Len(h)][2] = Len(tracks["player"]) - 1
          /\ MixedWindow(h)
    /\ "player_7" \in DOMAIN distance_traveled
    /\ distance_traveled["player_7"] > 0

-----------------------------------------------------------------------------
(* C7 *)

Zero == <<0, 1>>

\* C7 as stated: right after reset("player_7") the statistics have an entry for
\* player_7 with zero distance and zero speeds
C7_StatsShowZero ==
    op = <<"reset", "player_7">> =>
        /\ "player_7" \in DOMAIN get_player_stats
        /\ get_player_stats["player_7"].total_distance = 0
        /\ get_player_stats["player_7"].avg_speed = Zero
        /\ get_player_stats["player_7"].max_speed = Zero
        /\ get_player_stats["player_7"].current_speed = Zero

\* right after reset("player_7") nothing is left of player_7
C7_AfterReset ==
    op = <<"reset", "player_7">> =>
        /\ "player_7" \notin DOMAIN get_player_stats
        /\ "player_7" \notin DOMAIN position_history
        /\ "player_7" \notin DOMAIN speed_history
        /\ "player_7" \notin DOMAIN distance_traveled
        /\ "player_7" \notin DOMAIN display_cache

\* reset("player_7") leaves the data of every other key as it was
C7_Step ==
    op' = <<"reset", "player_7">> =>
        \A k \in (DOMAIN position_history \cup DOMAIN speed_history
                  \cup DOMAIN distance_traveled \cup DOMAIN display_cache
                  \cup DOMAIN position_history' \cup DOMAIN speed_history'
                  \cup DOMAIN distance_traveled' \cup DOMAIN display_cache') \ {"player_7"} :
            /\ Same(position_history, position_history', k)
            /\ Same(speed_history, speed_history', k)
            /\ Same(distance_traveled, distance_traveled', k)
            /\ Same(display_cache, display_cache', k)

\* C7 (amended): reset("player_7") removes the position history, speed history,
\* accumulator and cache entry of player_7, so that the statistics have no entry
\* for player_7, and leaves those of every other entity as they were.
C7_Reset == [](C7_AfterReset) /\ [][C7_Step]_vars

\* player_7 was reset after an update that gave it a distance, player_9 keeps its state
C7_Witness ==
    /\ op = <<"reset", "player_7">>
    /\ "player" \in DOMAIN tracks
    /\ \E f \in 1..Len(tracks["player"]) : \E i \in Items("player", f) :
        /\ TidAt("player", f, i) = T7
        /\ Annotated(InfoAt("player", f, i))
        /\ InfoAt("player", f, i).distance > 0
    /\ "player_9" \in DOMAIN distance_traveled
    /\ "player_7" \notin DOMAIN distance_traveled

-----------------------------------------------------------------------------
(* C9 *)

\* C9: no call of add_speed_and_distance_to_tracks ends with an error
C9_NoErrorEscapes == ~raised

-----------------------------------------------------------------------------
(* C10 *)

\* C10: when frames are drawn, every record with a bounding box of an entity
\* that has had a positioned sighting since its last reset resolves to a speed
\* and a distance.
C10_DisplayNeverDisappears ==
    output # <<>> =>
        \A obj \in DOMAIN output[1] : \A f \in 1..Len(tracks[obj]) : \A i \in Items(obj, f) :
            (/\ player_key(obj, TidAt(obj, f, i)) \in DOMAIN position_history
             /\ Has(InfoAt(obj, f, i), "bbox"))
            => output[1][obj][f][i][2] # <<>>

\* drawn: a record of player_7 without position and without annotation, at a
\* frame before its first sighting, resolved from the cache
C10_Witness ==
    /\ op = <<"draw", "">>
    /\ "player" \in DOMAIN tracks
    /\ "player_7" \in DOMAIN position_history
    /\ \E f \in 1..Len(tracks["player"]) : \E i \in Items("player", f) :
        /\ TidAt("player", f, i) = T7
        /\ Has(InfoAt("player", f, i), "bbox")
        /\ ~Annotated(InfoAt("player", f, i))
        /\ output[1]["player"][f][i][2] # <<>>

-----------------------------------------------------------------------------
(* C1 *)

\* C1: when the only two sightings of player_7 are real-world (0,0) at frame 0
\* and real-world (10 m, 0) at frame 30, the record at frame 30 carries the
\* speed 36 km/h and the distance 10 m.
C1_EndToEnd ==
    (/\ op = <<"frame", "player">>
     /\ "player_7" \in DOMAIN position_history
     /\ position_history["player_7"] = <<<<<<0, 0>>, 0, FALSE>>, <<<<Metres(10), 0>>, 30, FALSE>>>>
     /\ Len(tracks["player"]) = 31)
    => \A i \in Items("player", 31) :
        /\ Annotated(InfoAt("player", 31, i))
        /\ InfoAt("player", 31, i).speed = <<36, 1>>
        /\ InfoAt("player", 31, i).distance = Metres(10)

-----------------------------------------------------------------------------
(* C3 *)

RECURSIVE SeqAll(_, _)
\* every element of the sequence s of speeds is at most the speed m
SeqAll(s, m) == s = <<>> \/ (RatLeq(Head(s), <<m, 1>>) /\ SeqAll(Tail(s), m))

C3_SpeedsBelowCeiling ==
    /\ \A k \in DOMAIN speed_history : SeqAll(speed_history[k], 40)
    /\ \A k \in DOMAIN display_cache : RatLeq(display_cache[k].speed, <<40, 1>>)
    /\ \A obj \in DOMAIN tracks : \A f \in 1..Len(tracks[obj]) : \A i \in Items(obj, f) :
        Has(InfoAt(obj, f, i), "speed") => RatLeq(InfoAt(obj, f, i).speed, <<40, 1>>)

C3_IncrementStep ==
    \A k \in DOMAIN distance_traveled' :
        LET before == Get(distance_traveled, k, 0)
            after == distance_traveled'[k]
            h == position_history'[k]
        IN /\ after >= before
           /\ after - before <= Metres(5)
           /\ h[Len(h)][3] => after - before <= Metres(2)

\* C3: every increment of a distance accumulator is at least 0 and at most 5 m
\* (2 m when the newest sample is a pixel sample), and every speed in a speed
\* history, in a record or in the cache is at most 40 km/h.
C3_OutlierRejection == [](C3_SpeedsBelowCeiling) /\ [][C3_IncrementStep]_vars

\* player_7 moved, jumped 100 m in one frame, and two later frames followed
\* while the jump was in the window
C3_Witness ==
    /\ "player_7" \in DOMAIN position_history
    /\ "player_7" \in DOMAIN distance_traveled
    /\ distance_traveled["player_7"] > 0
    /\ LET h == position_history["player_7"]
       IN /\ Len(h) >= 4
          /\ \E i \in 2..(Len(h) - 2) :
                /\ ~h[i][3] /\ ~h[i - 1][3]
                /\ h[i][2] = h[i - 1][2] + 1
                /\ measure_distance(h[i - 1][1], h[i][1]) >= Metres(100)

-----------------------------------------------------------------------------
(* C6 *)

ExcludedKeys == {player_key(obj, tid) : obj \in {"ball", "referees"}, tid \in {T7, T9}}

\* C6: no record of class "ball" or "referees" has a speed or distance field,
\* and no position history, speed history, accumulator or cache entry exists
\* for an entity of these classes.
C6_Exclusion ==
    /\ \A obj \in DOMAIN tracks \cap {"ball", "referees"} :
        \A f \in 1..Len(tracks[obj]) : \A i \in Items(obj, f) :
            ~Has(InfoAt(obj, f, i), "speed") /\ ~Has(InfoAt(obj, f, i), "distance")
    /\ (DOMAIN position_history \cup DOMAIN speed_history \cup DOMAIN distance_traveled
        \cup DOMAIN display_cache) \cap ExcludedKeys = {}

\* an update call returned whose tracks held positioned records of "ball" and
\* "referees" and an annotated record of "player"
C6_Witness ==
    /\ op = <<"return", "">>
    /\ DOMAIN tracks = {"player", "ball", "referees"}
    /\ \A obj \in {"ball", "referees"} :
        \E f \in 1..Len(tracks[obj]) : \E i \in Items(obj, f) :
            SelectPosition(InfoAt(obj, f, i)) # <<>>
    /\ \E f \in 1..Len(tracks["player"]) : \E i \in Items("player", f) :
        Annotated(InfoAt("player", f, i)) /\ InfoAt("player", f, i).distance > 0

-----------------------------------------------------------------------------
(* C8 *)

ScaledVertices ==
    [v \in 1..Len(pixel_vertices) |->
        <<SubPixel * pixel_vertices[v][1], SubPixel * pixel_vertices[v][2]>>]

StrictlyOutside(pt) == pointPolygonTest(ScaledVertices, pt) < 0

\* C8: transform_point returns None for every point strictly outside the
\* calibration quadrilateral
C8_TransformBounds ==
    (transformed # <<"none">> /\ StrictlyOutside(point)) => transformed = <<"None">>

-----------------------------------------------------------------------------
(* C11 *)

C11_Capacity ==
    /\ \A k \in DOMAIN position_history : Len(position_history[k]) <= 20
    /\ \A k \in DOMAIN speed_history : Len(speed_history[k]) <= 10

\* history g is history h, or h with one item appended and, if h held cap
\* items, without its oldest item
FifoStep(h, g, cap) ==
    \/ g = h
    \/ /\ Len(h) < cap
       /\ Len(g) = Len(h) + 1
       /\ SubSeq(g, 1, Len(h)) = h
    \/ /\ Len(h) = cap
       /\ Len(g) = cap
       /\ SubSeq(g, 1, cap - 1) = Tail(h)

\* the samples of key k in the frame just enumerated
NewSamples(k) ==
    LET obj == op'[2]
        f == Len(tracks'[obj])
        tr == tracks'[obj][f]
    IN {<<SelectPosition(tr[i][2])[1].position, f - 1,
          SelectPosition(tr[i][2])[1].use_pixel_coords>> :
            i \in {j \in 1..Len(tr) : /\ player_key(obj, tr[j][1]) = k
                                      /\ SelectPosition(tr[j][2]) # <<>>}}

C11_Step ==
    ~IsReset(op') =>
        /\ \A k \in DOMAIN position_history' :
            LET h == Get(position_history, k, <<>>)
                g == position_history'[k]
            IN /\ FifoStep(h, g, 20)
               /\ (op'[1] = "frame" /\ ~raised') =>
                    \A s \in NewSamples(k) : g = LastN(Append(h, s), 20)
        /\ \A k \in DOMAIN speed_history' :
            FifoStep(Get(speed_history, k, <<>>), speed_history'[k], 10)

\* C11: a position history holds at most 20 samples and a speed history at
\* most 10 values, and an append to a full history removes exactly the oldest
\* item and keeps the order of the others.
C11_BoundedFifo == [](C11_Capacity) /\ [][C11_Step]_vars

\* both histories of player_7 are full and have lost items, and the speed
\* history holds different values
C11_Witness ==
    /\ "player_7" \in DOMAIN position_history
    /\ "player_7" \in DOMAIN speed_history
    /\ Len(position_history["player_7"]) = 20
    /\ position_history["player_7"][1][2] >= 2
    /\ Len(speed_history["player_7"]) = 10
    /\ speed_history["player_7"][1] # speed_history["player_7"][10]

-----------------------------------------------------------------------------
(* C12 *)

C12_CacheHasHistory ==
    \A k \in DOMAIN display_cache :
        k \in DOMAIN position_history /\ Len(position_history[k]) >= 1

C12_Step ==
    \A k \in DOMAIN display_cache' :
        /\ ~Same(display_cache, display_cache', k) =>
            /\ op'[1] = "frame"
            /\ \E info \in NewRecords(k) :
                /\ Annotated(info)
                /\ info.speed = display_cache'[k].speed
                /\ info.distance = display_cache'[k].distance
        /\ (Sampled(k) /\ Len(position_history'[k]) < 2) => k \notin DOMAIN display_cache

\* C12: an entity has a display-cache entry only if it has a non-empty
\* position history; a cache entry appears or changes only in a step of update
\* that writes this speed/distance pair to a record of the entity; and a
\* sample that leaves the history with fewer than 2 samples is taken with no
\* cache entry present.
C12_CacheEntryInvariant == [](C12_CacheHasHistory) /\ [][C12_Step]_vars

\* player_7, whose record got a speed and a distance, is reset and has no
\* cache entry any more, while player_9 keeps its cache entry and its history
C12_Witness ==
    /\ op = <<"reset", "player_7">>
    /\ "player" \in DOMAIN tracks
    /\ \E f \in 1..Len(tracks["player"]) : \E i \in Items("player", f) :
        TidAt("player", f, i) = T7 /\ Annotated(InfoAt("player", f, i))
    /\ "player_7" \notin DOMAIN display_cache
    /\ "player_9" \in DOMAIN display_cache
    /\ Len(position_history["player_9"]) >= 2

-----------------------------------------------------------------------------
(* C13 *)

\* this step appended the first sample of the history of key k
FirstSighting(k) == Sampled(k) /\ Len(position_history'[k]) = 1

C13_Step ==
    \A k \in DOMAIN position_history' :
        FirstSighting(k) =>
            /\ \A info \in NewRecords(k) :
                SelectPosition(info) # <<>> =>
                    /\ Annotated(info)
                    /\ info.speed = Zero
                    /\ info.distance = 0
            /\ k \in DOMAIN display_cache'
            /\ display_cache'[k] = [speed |-> Zero, distance |-> 0]
            /\ Same(speed_history, speed_history', k)
            /\ Same(distance_traveled, distance_traveled', k)

\* C13: when a record with a position is the first sample of its entity's
\* position history (first sighting ever or after a reset), update writes
\* speed 0 and distance 0 to the record and seeds the cache with (0, 0), and
\* adds nothing to the entity's speed history or distance accumulator.
C13_FirstSighting == [][C13_Step]_vars

\* in the second update call player_7 is sighted for the first time, with
\* zeros in its record and in the cache and no speed history or accumulator,
\* while player_9 has moved in the first call
C13_Witness ==
    /\ calls = 2
    /\ op = <<"frame", "player">>
    /\ "player_7" \in DOMAIN position_history
    /\ Len(position_history["player_7"]) = 1
    /\ \E i \in Items("player", Len(tracks["player"])) :
        /\ TidAt("player", Len(tracks["player"]), i) = T7
        /\ InfoAt("player", Len(tracks["player"]), i).speed = Zero
        /\ InfoAt("player", Len(tracks["player"]), i).distance = 0
    /\ display_cache["player_7"] = [speed |-> Zero, distance |-> 0]
    /\ "player_7" \notin DOMAIN speed_history
    /\ "player_7" \notin DOMAIN distance_traveled
    /\ "player_9" \in DOMAIN distance_traveled

-----------------------------------------------------------------------------
(* C14 *)

\* records without a usable position: no position field, no field at all, an
\* empty adjusted position
NoPositionInfos == {NoPosition, EmptyDict, Adjusted(<<>>)}

\* what a record without position becomes when the cache is display_cache
Reapplied(k, info) ==
    IF k \in DOMAIN display_cache
    THEN Annotate(info, display_cache[k].speed, display_cache[k].distance)
    ELSE info

\* the effect of the loop body on a record without position, in this state
C14_Effect ==
    \A tid \in {T7, T9} : \A info \in NoPositionInfos :
        LET r == ProcessRecord(State, "player", 0, tid, info)
        IN /\ r.st = State
           /\ ~r.raised
           /\ r.info = Reapplied(player_key("player", tid), info)

C14_Step ==
    op'[1] = "frame" =>
        \A k \in {"player_7", "player_9"} :
            (/\ NewRecords(k) # {}
             /\ \A info \in NewRecords(k) : SelectPosition(info) = <<>>) =>
                /\ Same(position_history, position_history', k)
                /\ Same(speed_history, speed_history', k)
                /\ Same(distance_traveled, distance_traveled', k)
                /\ Same(display_cache, display_cache', k)
                /\ ~raised' =>
                    \A info \in NewRecords(k) :
                        IF k \in DOMAIN display_cache
                        THEN /\ Annotated(info)
                             /\ info.speed = display_cache[k].speed
                             /\ info.distance = display_cache[k].distance
                        ELSE ~Has(info, "speed") /\ ~Has(info, "distance")

\* C14: processing a record that has no transformed, adjusted or raw position
\* changes no position history, speed history, accumulator or cache entry; the
\* record gets the cached speed and distance if its entity has a cache entry,
\* and no speed or distance field otherwise.
C14_NoPositionNoEffect == [](C14_Effect) /\ [][C14_Step]_vars

\* the frame just enumerated holds a record of player_7 without position that
\* got the cached distance, which is above 0
C14_Witness ==
    /\ op = <<"frame", "player">>
    /\ Len(tracks["player"]) >= 2
    /\ \E i \in Items("player", Len(tracks["player"])) :
        /\ TidAt("player", Len(tracks["player"]), i) = T7
        /\ SelectPosition(InfoAt("player", Len(tracks["player"]), i)) = <<>>
        /\ Annotated(InfoAt("player", Len(tracks["player"]), i))
        /\ InfoAt("player", Len(tracks["player"]), i).distance > 0
        /\ InfoAt("player", Len(tracks["player"]), i).distance
             = distance_traveled["player_7"]

-----------------------------------------------------------------------------
(* C15 *)

\* x is the r-th smallest value of h
IsKth(h, r, x) ==
    /\ \E j \in 1..Len(h) : h[j] = x
    /\ Cardinality({j \in 1..Len(h) : RatLess(h[j], x)}) < r
    /\ r <= Cardinality({j \in 1..Len(h) : RatLeq(h[j], x)})

\* m is the median of h: its middle value, or the mean of its two middle values
IsMedian(h, m) ==
    LET n == Len(h)
    IN IF n % 2 = 1 THEN IsKth(h, (n + 1) \div 2, m)
       ELSE \E i, j \in 1..n :
            /\ IsKth(h, n \div 2, h[i])
            /\ IsKth(h, n \div 2 + 1, h[j])
            /\ RatAdd(m, m) = RatAdd(h[i], h[j])

\* the instantaneous speed of the window that ends with the sample just appended
RawSpeed(k) ==
    LET w == LastN(position_history'[k], smoothing_window)
    IN _calculate_instantaneous_speed([i \in 1..Len(w) |-> w[i][1]],
                                      [i \in 1..Len(w) |-> w[i][2]],
                                      w[Len(w)][3]).val

C15_Step ==
    \A k \in DOMAIN position_history' :
        (/\ Sampled(k)
         /\ Len(position_history'[k]) >= 2
         /\ ~MixedWindow(position_history'[k])
         /\ ~raised') =>
            LET h == Get(speed_history, k, <<>>)
                g == Get(speed_history', k, <<>>)
            IN IF RawSpeed(k) # <<>>
               THEN /\ g = LastN(Append(h, RawSpeed(k)[1]), 10)
                    /\ \A info \in NewRecords(k) :
                        /\ Annotated(info)
                        /\ IF Len(g) >= 3 THEN IsMedian(g, info.speed)
                           ELSE info.speed = RawSpeed(k)[1]
                        /\ display_cache'[k].speed = info.speed
               ELSE /\ g = h
                    /\ Same(display_cache, display_cache', k)

\* C15: an accepted instantaneous speed is appended to the entity's speed
\* history, and the speed written to the record is the median of the whole
\* history (the mean of the two middle values for an even count) if the
\* history then holds at least 3 values and the raw value if it holds 1 or 2;
\* a rejected instantaneous speed is not appended and gives no smoothed speed.
C15_MedianSmoothing == [][C15_Step]_vars

\* the speed history of player_7 holds 10 values, has lost values, and the
\* smoothed speed is the mean of two different middle values
C15_Witness ==
    /\ op = <<"frame", "player">>
    /\ "player_7" \in DOMAIN speed_history
    /\ Len(speed_history["player_7"]) = 10
    /\ Len(position_history["player_7"]) = 20
    /\ \A j \in 1..10 : speed_history["player_7"][j] # display_cache["player_7"].speed
    /\ IsMedian(speed_history["player_7"], display_cache["player_7"].speed)

-----------------------------------------------------------------------------
(* C16 *)

\* the last sample of the speed window of history h is not later than its first
DegenerateWindow(h) ==
    LET w == LastN(h, smoothing_window)
    IN Len(w) >= 2 /\ w[Len(w)][2] <= w[1][2]

C16_Step ==
    \A k \in DOMAIN position_history' :
        (/\ Sampled(k)
         /\ ~MixedWindow(position_history'[k])
         /\ DegenerateWindow(position_history'[k])) =>
            /\ Same(speed_history, speed_history', k)
            /\ Same(display_cache, display_cache', k)
            /\ \A info \in NewRecords(k) :
                SelectPosition(info) # <<>> => ~Has(info, "speed")

\* C16: when the frame index of the last sample of the speed window is not
\* above the frame index of its first sample, nothing is appended to the speed
\* history, the cache is not refreshed and no speed is written to the record.
C16_DegenerateTimeDelta == [][C16_Step]_vars

\* in the second update call, whose frame indices restart at 0, player_7 moved:
\* its record has no speed, its speed history is as it was, and its cache
\* entry is behind the accumulator
C16_Witness ==
    /\ calls = 2
    /\ op = <<"frame", "player">>
    /\ ~raised
    /\ "player_7" \in DOMAIN position_history
    /\ DegenerateWindow(position_history["player_7"])
    /\ ~MixedWindow(position_history["player_7"])
    /\ \E i \in Items("player", Len(tracks["player"])) :
        /\ TidAt("player", Len(tracks["player"]), i) = T7
        /\ SelectPosition(InfoAt("player", Len(tracks["player"]), i)) # <<>>
        /\ ~Has(InfoAt("player", Len(tracks["player"]), i), "speed")
    /\ "player_7" \in DOMAIN display_cache
    /\ "player_7" \in DOMAIN distance_traveled
    /\ display_cache["player_7"].distance < distance_traveled["player_7"]

-----------------------------------------------------------------------------
(* C17 *)

\* the entities the estimator tracks
Tracked == DOMAIN position_history \cup DOMAIN display_cache

\* entry e aggregates accumulator value d and speed history h
Aggregates(e, d, h) ==
    /\ e.total_distance = d
    /\ IF h = <<>>
       THEN e.avg_speed = Zero /\ e.max_speed = Zero /\ e.current_speed = Zero
       ELSE /\ Rat(e.avg_speed[1] * Len(h), e.avg_speed[2]) = Sum(h)
            /\ \E j \in 1..Len(h) : h[j] = e.max_speed
            /\ \A j \in 1..Len(h) : RatLeq(h[j], e.max_speed)
            /\ e.current_speed = h[Len(h)]

\* C17: for every entity that has a position history or a cache entry,
\* get_player_stats has an entry whose total_distance is the entity's
\* accumulator and whose avg_speed, max_speed and current_speed are the mean,
\* the maximum and the last value of its speed history, 0 if it is empty.
C17_StatsCoverTracked ==
    \A k \in Tracked :
        /\ k \in DOMAIN get_player_stats
        /\ Aggregates(get_player_stats[k], Get(distance_traveled, k, 0),
                      Get(speed_history, k, <<>>))

\* the same for the entities that have an accumulator entry
C17_StatsOfAccumulated ==
    \A k \in DOMAIN distance_traveled :
        /\ k \in Tracked
        /\ Aggregates(get_player_stats[k], distance_traveled[k],
                      Get(speed_history, k, <<>>))

-----------------------------------------------------------------------------
(* C18 *)

C18_CacheBelowAccumulator ==
    \A k \in DOMAIN display_cache :
        display_cache[k].distance <= Get(distance_traveled, k, 0)

\* the distance increment of the two most recent samples of history h, <<>> if
\* there is none or it is rejected
LastIncrement(h) ==
    IF h[Len(h) - 1][3] # h[Len(h)][3] THEN <<>>
    ELSE _calculate_distance_increment(h[Len(h) - 1][1], h[Len(h)][1], h[Len(h)][3])

C18_Step ==
    \A k \in DOMAIN position_history' :
        (/\ Sampled(k)
         /\ Len(position_history'[k]) >= 2
         /\ ~MixedWindow(position_history'[k])
         /\ ~raised') =>
            /\ IF LastIncrement(position_history'[k]) # <<>>
               THEN /\ k \in DOMAIN distance_traveled'
                    /\ Get(distance_traveled', k, 0)
                        = Get(distance_traveled, k, 0) + LastIncrement(position_history'[k])[1]
               ELSE Get(distance_traveled', k, 0) = Get(distance_traveled, k, 0)
            /\ RawSpeed(k) # <<>> =>
                /\ k \in DOMAIN distance_traveled'
                /\ display_cache'[k].distance = Get(distance_traveled', k, 0)
                /\ \A info \in NewRecords(k) : info.distance = Get(distance_traveled', k, 0)

\* C18: the distance of an entity's cache entry is at most the entity's
\* accumulator; right after a frame that gave a smoothed speed, the record's
\* distance, the cache's distance and the accumulator are equal; and an
\* accepted distance increment is added to the accumulator also on a frame
\* whose speed was rejected, so that it is part of the distance written at the
\* next frame with a valid speed.
C18_CacheAccumulatorConsistency == [](C18_CacheBelowAccumulator) /\ [][C18_Step]_vars

\* player_7 has just got a smoothed speed, and its record carries a distance
\* of 8 m: a move of 4 m and back, made on frames whose speed was above the
\* ceiling
C18_Witness ==
    /\ op = <<"frame", "player">>
    /\ "player_7" \in DOMAIN display_cache
    /\ "player_7" \in DOMAIN distance_traveled
    /\ distance_traveled["player_7"] = Metres(8)
    /\ display_cache["player_7"].distance = Metres(8)
    /\ \A j \in 1..Len(speed_history["player_7"]) : speed_history["player_7"][j] = Zero
    /\ \E i \in Items("player", Len(tracks["player"])) :
        /\ Annotated(InfoAt("player", Len(tracks["player"]), i))
        /\ InfoAt("player", Len(tracks["player"]), i).distance = Metres(8)

-----------------------------------------------------------------------------
(* C19 *)

\* what the rendering drew for identity tid at frame f of class obj
DrawnAt(obj, f, tid) ==
    {output[1][obj][f][i][2][1] :
        i \in {j \in 1..Len(output[1][obj][f]) :
                /\ output[1][obj][f][j][1] = tid
                /\ output[1][obj][f][j][2] # <<>>}}

\* a record of tid at frame f or before carries the pair v
KnownBy(obj, f, tid, v) ==
    \E g \in 1..f : \E i \in Items(obj, g) :
        /\ TidAt(obj, g, i) = tid
        /\ Annotated(InfoAt(obj, g, i))
        /\ InfoAt(obj, g, i).speed = v.speed
        /\ InfoAt(obj, g, i).distance = v.distance

C19_Rendered ==
    \A obj \in DOMAIN output[1] : \A tid \in {T7, T9} :
        /\ \A f \in 1..Len(output[1][obj]) : \A v \in DrawnAt(obj, f, tid) :
            KnownBy(obj, f, tid, v)
        /\ \A f1, f2 \in 1..Len(output[1][obj]) :
            f1 < f2 => \A v1 \in DrawnAt(obj, f1, tid), v2 \in DrawnAt(obj, f2, tid) :
                v1.distance <= v2.distance

C19_Step ==
    (op = <<"return", "">> /\ op'[1] = "draw") => C19_Rendered'

\* C19: when the rendering follows an update over the same tracks, the speed
\* and distance drawn for an entity at frame K are those of a record of the
\* entity at a frame <= K, never values first produced at a later frame, and
\* the distance drawn for an entity is non-decreasing in frame order.
C19_RenderLastKnownGood == [][C19_Step]_vars

-----------------------------------------------------------------------------
(* C20 *)

\* the (class, identity) pairs of the records of tracks' whose key is k
PairsOf(k) ==
    UNION {UNION {{<<obj, tracks'[obj][f][i][1]>> :
                        i \in {j \in 1..Len(tracks'[obj][f]) :
                                player_key(obj, tracks'[obj][f][j][1]) = k}} :
                  f \in 1..Len(tracks'[obj])} :
           obj \in DOMAIN tracks'}

\* this step changed the position history, speed history, accumulator or
\* cache entry of key k
Touched(k) ==
    \/ ~Same(position_history, position_history', k)
    \/ ~Same(speed_history, speed_history', k)
    \/ ~Same(distance_traveled, distance_traveled', k)
    \/ ~Same(display_cache, display_cache', k)

C20_Step ==
    op'[1] = "frame" =>
        \A k \in DOMAIN position_history' :
            Touched(k) => Cardinality(PairsOf(k)) <= 1

\* C20: the estimator state that the processing of a record changes is never
\* state of a record of a different (class, identity) pair, whatever the class
\* names and identities.
C20_EntityIsolation == [][C20_Step]_vars

====
